---- MODULE Spec2Model ----
(***************************************************************************)
(* State-machine model of the branching video tree builder: the node       *)
(* mapping held in React state, the recursive layout pass that positions   *)
(* it, the connector path between a parent and a child, and the event      *)
(* handlers (add child, file selection, reset) that change it.             *)
(*                                                                         *)
(* Node ids: 'root' is ROOT, `node-${Date.now()}` is the clock reading     *)
(* itself (a positive integer).  x coordinates are exact rationals         *)
(* [n, d] in lowest terms: the layout divides a sum of midpoints by the    *)
(* number of children, and IEEE division is correctly rounded, so equality *)
(* and order of the stored doubles are those of the rationals.             *)
(***************************************************************************)
EXTENDS Integers, Sequences, FiniteSets, TLC

\* ---- bounds of the model
\* add-child clicks since the last reset, plus one, under Spec
MaxNodes == 5
\* the same under SpecSpaced
MaxSpacedNodes == 6
\* the last clock reading
MaxNow == 5

\* ---- program constants
LEVEL_HEIGHT == 220
NODE_SPACING == 200
COLORS == << "#9b87f5", "#D946EF", "#F97316", "#0EA5E9",
             "#8B5CF6", "#EC4899", "#14B8A6", "#F59E0B" >>

\* the id 'root'; every other id is a clock reading >= 1
ROOT == 0
\* null, as the value of parentId and of activeNodeId
Null == -1
\* null, as the value of videoUrl
NoVideo == "null"
\* the object URL that URL.createObjectURL returns for the selected file
BlobUrl == "blob:video"
\* what event.target.files?.[0] can be: a video file, another file, no file
Files == {"video/mp4", "image/png", "none"}

VARIABLES nodes, activeNodeId, picker, now

vars == <<nodes, activeNodeId, picker, now>>

\* ---- exact arithmetic on x coordinates
RECURSIVE GCD(_, _)
GCD(a, b) ==
    IF b = 0 THEN a ELSE GCD(b, a % b)

Rat(n, d) ==
    LET g == GCD(n, d) IN [n |-> n \div g, d |-> d \div g]

RatAdd(a, b) ==
    Rat(a.n * b.d + b.n * a.d, a.d * b.d)

RatDiv(a, k) ==
    Rat(a.n, a.d * k)

RatLess(a, b) ==
    a.n * b.d < b.n * a.d

RatLeq(a, b) ==
    a.n * b.d <= b.n * a.d

\* Math.abs(b - a) < k
AbsDiffLess(a, b, k) ==
    LET diff == b.n * a.d - a.n * b.d
        abs == IF diff < 0 THEN -diff ELSE diff
    IN abs < k * a.d * b.d

RECURSIVE RatSum(_, _)
\* childPositions.reduce((a, b) => a + b, 0), from index i on
RatSum(s, i) ==
    IF i > Len(s) THEN Rat(0, 1) ELSE RatAdd(s[i], RatSum(s, i + 1))

\* ---- the node mapping
InitialNodes ==
    ROOT :> [id |-> ROOT, videoUrl |-> NoVideo, x |-> Rat(600, 1), y |-> 100,
             color |-> COLORS[1], parentId |-> Null, children |-> <<>>,
             level |-> 0]

ResetNodes ==
    ROOT :> [id |-> ROOT, videoUrl |-> NoVideo, x |-> Rat(600, 1), y |-> 100,
             color |-> COLORS[1], parentId |-> Null, children |-> <<>>,
             level |-> 0]

\* ---- the layout pass
RECURSIVE calculateTreeLayout(_, _, _, _)
RECURSIVE layoutChildren(_, _, _, _, _, _)

\* node.children.forEach(...): the children from index i on, the cursor and
\* the midpoints collected so far threaded through
layoutChildren(children, i, nodesMap, currentX, level, childPositions) ==
    IF i > Len(children)
    THEN [map |-> nodesMap, currentX |-> currentX,
          childPositions |-> childPositions]
    ELSE LET r == calculateTreeLayout(children[i], nodesMap, currentX, level + 1)
         IN layoutChildren(children, i + 1, r.map, r.endX, level,
                Append(childPositions,
                       Rat(currentX + r.endX - NODE_SPACING, 2)))

\* Returns the cursor after the subtree and the mapping with the records the
\* pass wrote to (the code writes node.x, node.y, node.level in place).
calculateTreeLayout(nodeId, nodesMap, startX, level) ==
    IF nodeId \notin DOMAIN nodesMap
    THEN [map |-> nodesMap, endX |-> startX]
    ELSE LET node == nodesMap[nodeId] IN
         IF Len(node.children) = 0
         THEN [map |-> [nodesMap EXCEPT ![nodeId].x = Rat(startX, 1),
                                        ![nodeId].y = 100 + level * LEVEL_HEIGHT,
                                        ![nodeId].level = level],
               endX |-> startX + NODE_SPACING]
         ELSE LET r == layoutChildren(node.children, 1, nodesMap, startX,
                                      level, <<>>)
                  cp == r.childPositions
              IN [map |-> [r.map EXCEPT
                      ![nodeId].x = IF Len(cp) > 0
                                    THEN RatDiv(RatSum(cp, 1), Len(cp))
                                    ELSE Rat(startX, 1),
                      ![nodeId].y = 100 + level * LEVEL_HEIGHT,
                      ![nodeId].level = level],
                  endX |-> r.currentX]

recalculateLayout(nodesMap) ==
    calculateTreeLayout(ROOT, nodesMap, 100, 0).map

\* ---- the connector path
\* the curve's second control point takes the parent's x
calculateBranchPathSkewed(parent, child) ==
    LET startX == parent.x
        startY == Rat(parent.y + 80, 1)
        endX == child.x
        endY == Rat(child.y - 80, 1)
    IN IF AbsDiffLess(startX, endX, 10)
       THEN << [op |-> "M", pts |-> << <<startX, startY>> >>],
               [op |-> "L", pts |-> << <<endX, endY>> >>] >>
       ELSE << [op |-> "M", pts |-> << <<startX, startY>> >>],
               [op |-> "C", pts |-> << <<startX, startY>>,
                                       <<startX, endY>>,
                                       <<endX, endY>> >>] >>

\* The SVG path string as its commands: <<M start, L end>> in the near-vertical
\* case, <<M start, C control1 control2 end>> otherwise.  0.6 is 3/5.
calculateBranchPath(parent, child) ==
    LET startX == parent.x
        startY == Rat(parent.y + 80, 1)
        endX == child.x
        endY == Rat(child.y - 80, 1)
        midY == RatDiv(RatAdd(startY, endY), 2)
        neg(a) == [n |-> -a.n, d |-> a.d]
        scale(a) == Rat(a.n * 3, a.d * 5)
        controlY1 == RatAdd(startY, scale(RatAdd(midY, neg(startY))))
        controlY2 == RatAdd(endY, neg(scale(RatAdd(endY, neg(midY)))))
    IN IF AbsDiffLess(startX, endX, 10)
       THEN << [op |-> "M", pts |-> << <<startX, startY>> >>],
               [op |-> "L", pts |-> << <<endX, endY>> >>] >>
       ELSE << [op |-> "M", pts |-> << <<startX, startY>> >>],
               [op |-> "C", pts |-> << <<startX, controlY1>>,
                                       <<endX, controlY2>>,
                                       <<endX, endY>> >>] >>

\* ---- the handlers
\* `node-${Date.now()}`
newIdAt(t) ==
    t

\* the object literal of addChildNode: a later key replaces an earlier one, so
\* newId's record wins over the parent's copy when the two ids are equal
updatedNodesOf(nodesMap, parentId, newId) ==
    LET parent == nodesMap[parentId]
        newNode == [id |-> newId, videoUrl |-> NoVideo, x |-> parent.x,
                    y |-> parent.y + LEVEL_HEIGHT,
                    color |-> COLORS[(Cardinality(DOMAIN nodesMap) % Len(COLORS)) + 1],
                    parentId |-> parentId, children |-> <<>>,
                    level |-> parent.level + 1]
    IN [id \in DOMAIN nodesMap \cup {newId} |->
           IF id = newId THEN newNode
           ELSE IF id = parentId
                THEN [nodesMap[parentId] EXCEPT !.children = Append(@, newId)]
                ELSE nodesMap[id]]

addChildNode(nodesMap, parentId, t) ==
    recalculateLayout(updatedNodesOf(nodesMap, parentId, newIdAt(t)))

\* the file handler also runs a layout pass over the mapping it returns
handleFileSelectRelayout(prev, nodeId, file) ==
    IF file = "video/mp4" /\ nodeId \in DOMAIN prev
    THEN recalculateLayout([prev EXCEPT ![nodeId].videoUrl = BlobUrl])
    ELSE prev

\* setNodes((prev) => ({...prev, [nodeId]: {...prev[nodeId], videoUrl}})) when the
\* file is a video, nothing otherwise
handleFileSelect(prev, nodeId, file) ==
    IF file = "video/mp4"
    THEN [id \in DOMAIN prev \cup {nodeId} |->
             IF id = nodeId
             THEN IF nodeId \in DOMAIN prev
                  THEN [prev[nodeId] EXCEPT !.videoUrl = BlobUrl]
                  ELSE [videoUrl |-> BlobUrl]
             ELSE prev[id]]
    ELSE prev

\* the add-child control is rendered for every node
CanAddChildAlways(node) ==
    TRUE

\* the add-child control is rendered inside the branch `node.videoUrl ? ...`
CanAddChild(node) ==
    node.videoUrl # NoVideo

\* the placeholder is rendered in the other branch
IsPlaceholder(node) ==
    node.videoUrl = NoVideo

\* the number of children entries of the mapping: the add-child clicks since
\* the last reset
RECURSIVE Entries(_, _)
Entries(nodesMap, ids) ==
    IF ids = {} THEN 0
    ELSE LET id == CHOOSE i \in ids : TRUE
         IN Len(nodesMap[id].children) + Entries(nodesMap, ids \ {id})

\* ---- the state machine
Init ==
    /\ nodes = InitialNodes
    /\ activeNodeId = Null
    /\ picker = "closed"
    /\ now = 1

\* Date.now() moves on.  A reading that no node id carries can be skipped
\* without changing which ids collide, so the clock only leaves a used reading.
Tick ==
    /\ now < MaxNow
    /\ now \in DOMAIN nodes
    /\ now' = now + 1
    /\ UNCHANGED <<nodes, activeNodeId, picker>>

\* onClick of the add-child control of node parentId
AddChildWithin(parentId, bound) ==
    /\ picker = "closed"
    /\ parentId \in DOMAIN nodes
    /\ CanAddChild(nodes[parentId])
    /\ 1 + Entries(nodes, DOMAIN nodes) < bound
    /\ nodes' = addChildNode(nodes, parentId, now)
    /\ UNCHANGED <<activeNodeId, picker, now>>

AddChild(parentId) ==
    AddChildWithin(parentId, MaxNodes)

\* the same click, at least a millisecond after the previous one: no node
\* carries the current clock reading
SpacedAddChild(parentId) ==
    /\ now \notin DOMAIN nodes
    /\ AddChildWithin(parentId, MaxSpacedNodes)

\* onClick of the placeholder of node id: the file chooser opens
ClickPlaceholder(id) ==
    /\ picker = "closed"
    /\ id \in DOMAIN nodes
    /\ IsPlaceholder(nodes[id])
    /\ activeNodeId' = id
    /\ picker' = "open"
    /\ UNCHANGED <<nodes, now>>

\* onChange of the file input
FileChange(file) ==
    /\ picker = "open"
    /\ nodes' = IF activeNodeId # Null
                THEN handleFileSelect(nodes, activeNodeId, file)
                ELSE nodes
    /\ picker' = "closed"
    /\ UNCHANGED <<activeNodeId, now>>

\* the file chooser is dismissed: no change event
CancelPicker ==
    /\ picker = "open"
    /\ picker' = "closed"
    /\ UNCHANGED <<nodes, activeNodeId, now>>

\* onClick of the reset button
Reset ==
    /\ picker = "closed"
    /\ nodes' = ResetNodes
    /\ UNCHANGED <<activeNodeId, picker, now>>

Next ==
    \/ Tick
    \/ \E parentId \in DOMAIN nodes : AddChild(parentId)
    \/ \E id \in DOMAIN nodes : ClickPlaceholder(id)
    \/ \E file \in Files : FileChange(file)
    \/ CancelPicker
    \/ Reset

\* Every event handler runs to completion and React commits and re-renders
\* before the next event: `nodes` is both the committed state and the value
\* the handlers of the last render closed over.
Spec == Init /\ [][Next]_vars

\* The behaviours of Spec in which no two add-child clicks fall in the same
\* millisecond.
NextSpaced ==
    \/ Tick
    \/ \E parentId \in DOMAIN nodes : SpacedAddChild(parentId)
    \/ \E id \in DOMAIN nodes : ClickPlaceholder(id)
    \/ \E file \in Files : FileChange(file)
    \/ CancelPicker
    \/ Reset

SpecSpaced == Init /\ [][NextSpaced]_vars

\* ---- vocabulary of the properties
RECURSIVE Preorder(_, _)
RECURSIVE PreorderAll(_, _, _)

\* the ids met when following children lists from id, in order, with repeats
Preorder(nodesMap, id) ==
    IF id \notin DOMAIN nodesMap THEN <<id>>
    ELSE <<id>> \o PreorderAll(nodesMap, nodesMap[id].children, 1)

PreorderAll(nodesMap, children, i) ==
    IF i > Len(children) THEN <<>>
    ELSE Preorder(nodesMap, children[i]) \o PreorderAll(nodesMap, children, i + 1)

Range(s) ==
    {s[i] : i \in 1..Len(s)}

Subtree(nodesMap, id) ==
    Range(Preorder(nodesMap, id))

NoRepeat(s) ==
    \A i, j \in 1..Len(s) : s[i] = s[j] => i = j

\* the parent/child edges of the mapping, as <<parent id, index>>
Edges ==
    UNION {{<<id, i>> : i \in 1..Len(nodes[id].children)} : id \in DOMAIN nodes}

IsAddChildStep(parentId) ==
    /\ parentId \in DOMAIN nodes
    /\ picker = "closed"
    /\ CanAddChild(nodes[parentId])
    /\ nodes' = addChildNode(nodes, parentId, now)

\* ---- the properties

\* C1: the node mapping is always a single tree rooted at 'root': 'root' is
\* the only node without a parent, every other node's parent exists and lists
\* it as a child, every listed child exists, and following children lists
\* from 'root' meets every node exactly once.
C1_SingleTree ==
    /\ \A id \in DOMAIN nodes : (nodes[id].parentId = Null) <=> (id = ROOT)
    /\ \A id \in DOMAIN nodes \ {ROOT} :
          /\ nodes[id].parentId \in DOMAIN nodes
          /\ id \in Range(nodes[nodes[id].parentId].children)
    /\ \A id \in DOMAIN nodes : Range(nodes[id].children) \subseteq DOMAIN nodes
    /\ Subtree(nodes, ROOT) = DOMAIN nodes
    /\ NoRepeat(Preorder(nodes, ROOT))

\* C2: every add-child step generates an id that is not yet in the mapping,
\* so it adds exactly one node and leaves no children list with a repeated id.
C2_FreshId ==
    [][\A parentId \in DOMAIN nodes :
          IsAddChildStep(parentId) =>
             /\ newIdAt(now) \notin DOMAIN nodes
             /\ Cardinality(DOMAIN nodes') = Cardinality(DOMAIN nodes) + 1
             /\ \A id \in DOMAIN nodes' : NoRepeat(nodes'[id].children)]_vars

\* C3: every node that has a child has media attached.
C3_BranchOnlyWithMedia ==
    \A id \in DOMAIN nodes :
        Len(nodes[id].children) > 0 => nodes[id].videoUrl # NoVideo

\* a node other than the root has branched
C3_Witness ==
    \E id \in DOMAIN nodes \ {ROOT} : Len(nodes[id].children) > 1

\* C4: the stored x, y and level of every node are those a full layout pass
\* assigns for the current structure.
C4_LayoutFresh ==
    LET laid == recalculateLayout(nodes)
    IN \A id \in DOMAIN nodes :
          /\ nodes[id].x = laid[id].x
          /\ nodes[id].y = laid[id].y
          /\ nodes[id].level = laid[id].level

\* C5: the root has level 0, every other node has its parent's level plus 1,
\* and every node's y is 100 + level * LEVEL_HEIGHT.
C5_Levels ==
    /\ nodes[ROOT].level = 0
    /\ \A id \in DOMAIN nodes \ {ROOT} :
          /\ nodes[id].parentId \in DOMAIN nodes
          /\ nodes[id].level = nodes[nodes[id].parentId].level + 1
    /\ \A id \in DOMAIN nodes : nodes[id].y = 100 + nodes[id].level * LEVEL_HEIGHT

\* C6: for siblings a before b in their parent's children order, a.x <= b.x
\* and every node of a's subtree lies strictly left of every node of b's.
C6_SiblingOrder ==
    \A e, f \in Edges :
        (e[1] = f[1] /\ e[2] < f[2]) =>
            LET a == nodes[e[1]].children[e[2]]
                b == nodes[f[1]].children[f[2]]
            IN /\ RatLeq(nodes[a].x, nodes[b].x)
               /\ \A u \in Subtree(nodes, a), v \in Subtree(nodes, b) :
                     RatLess(nodes[u].x, nodes[v].x)

\* C7: a node with exactly one child has the x of that child.
C7_OnlyChildCentered ==
    \A id \in DOMAIN nodes :
        Len(nodes[id].children) = 1 =>
            nodes[id].x = nodes[nodes[id].children[1]].x

C9_BranchPath ==
    \A e \in Edges :
        LET parent == nodes[e[1]]
            child == nodes[parent.children[e[2]]]
            path == calculateBranchPath(parent, child)
            last == path[2].pts[Len(path[2].pts)]
        IN /\ Len(path) = 2
           /\ path[1] = [op |-> "M",
                         pts |-> << <<parent.x, Rat(parent.y + 80, 1)>> >>]
           /\ last = <<child.x, Rat(child.y - 80, 1)>>
           /\ (path[2].op = "L") <=> AbsDiffLess(parent.x, child.x, 10)
           /\ path[2].op = "L" => Len(path[2].pts) = 1
           /\ path[2].op # "L" =>
                 /\ path[2].op = "C"
                 /\ Len(path[2].pts) = 3
                 /\ path[2].pts[1][1] = parent.x
                 /\ path[2].pts[2][1] = child.x

\* a straight connector and a curved one are drawn in the same tree
C9_Witness ==
    /\ \E e \in Edges :
          calculateBranchPath(nodes[e[1]],
                              nodes[nodes[e[1]].children[e[2]]])[2].op = "L"
    /\ \E e \in Edges :
          calculateBranchPath(nodes[e[1]],
                              nodes[nodes[e[1]].children[e[2]]])[2].op = "C"

\* C10: no step other than a reset loses a node, attached media or a child,
\* and an add-child step leaves every record of the mapping it started from
\* as it was (the records the new mapping shares with it included).
C10_NoMutationLost ==
    [][/\ ~Reset =>
            \A id \in DOMAIN nodes :
                /\ id \in DOMAIN nodes'
                /\ nodes[id].videoUrl # NoVideo => nodes'[id].videoUrl # NoVideo
                /\ Range(nodes[id].children) \subseteq Range(nodes'[id].children)
       /\ \A parentId \in DOMAIN nodes :
             IsAddChildStep(parentId) =>
                \A id \in DOMAIN nodes \ {parentId, newIdAt(now)} :
                    nodes'[id] = nodes[id]]_vars

====
